---- MODULE Spec2Model ----
(***************************************************************************)
(* Model of inventory_system.py: the module-level ledger stock_data, the   *)
(* operations add_item, remove_item, get_qty, check_low_items, load_data   *)
(* and save_data, and the file "inventory.json" they read and write.       *)
(*                                                                         *)
(* A Python dict is modelled as a sequence of [k, v] records with distinct *)
(* keys, in insertion order.  A Python argument is modelled as a record    *)
(* that carries its type: [kind |-> "str", s |-> "a"] for a string,        *)
(* [kind |-> "int", n |-> 2] for an integer.  The file content is a        *)
(* sequence of characters.                                                 *)
(***************************************************************************)
EXTENDS Integers, Sequences, FiniteSets, TLC

VARIABLES stock_data, file, logs, last, snapshot

vars == <<stock_data, file, logs, last, snapshot>>

(***************************************************************************)
(* Bounds of the model.                                                    *)
(***************************************************************************)
\* Largest absolute quantity a ledger entry is allowed to reach.
MaxQty == 2
\* Largest absolute qty / threshold argument passed to an operation.
MaxDelta == 2
\* Largest length of the caller's audit log.
MaxLogs == 1

\* Default of check_low_items' threshold parameter.
DefaultThreshold == 5

\* Item names used as keys.
Names == {"a", "b"}

(***************************************************************************)
(* Argument values.                                                        *)
(***************************************************************************)
StrArg(s) == [kind |-> "str", s |-> s]
IntArg(n) == [kind |-> "int", n |-> n]
\* A non-string, hashable item such as 123 in main().
NonStrItem == [kind |-> "int", s |-> "123"]
\* A non-integer quantity such as "ten" in main().
NonIntQty == [kind |-> "str", n |-> 0]
NoItem == [kind |-> "none", s |-> ""]
NoQty == [kind |-> "none", n |-> 0]

ItemArgs == {StrArg(s) : s \in Names \cup {""}} \cup {NonStrItem}
QtyArgs == {IntArg(n) : n \in -MaxDelta..MaxDelta} \cup {NonIntQty}
ThresholdArgs == {IntArg(n) : n \in 0..MaxDelta} \cup {NonIntQty}

\* The arguments used where the file is modelled too.
FewItems == {StrArg(s) : s \in Names} \cup {NonStrItem}
FewQtys == {IntArg(1), NonIntQty}

InRange(n) == n \in -MaxQty..MaxQty

(***************************************************************************)
(* dict operations.                                                        *)
(***************************************************************************)
Keys(d) == {d[i].k : i \in 1..Len(d)}

\* `item in d`: a key of the ledger is a string, so only a string matches.
Has(d, item) == item.kind = "str" /\ item.s \in Keys(d)

\* d[key] for a key that is present.
Lookup(d, key) == d[CHOOSE i \in 1..Len(d) : d[i].k = key].v

\* d.get(item, default)
Get(d, item, default) == IF Has(d, item) THEN Lookup(d, item.s) ELSE default

\* d[key] = v: in place for a present key, appended for a new one.
Set(d, key, v) ==
    IF key \in Keys(d)
    THEN [i \in 1..Len(d) |-> IF d[i].k = key THEN [k |-> key, v |-> v] ELSE d[i]]
    ELSE Append(d, [k |-> key, v |-> v])

\* del d[key]
IsNotKey(e, key) == e.k # key
Del(d, key) == SelectSeq(d, LAMBDA e : IsNotKey(e, key))

(***************************************************************************)
(* json.dumps(stock_data, indent=4) and json.loads, on the grammar the     *)
(* ledger uses: one object whose members map a string to an integer.       *)
(* A text is a sequence of characters; a key name is one element of it.    *)
(***************************************************************************)
Digits == <<"0", "1", "2", "3", "4", "5", "6", "7", "8", "9">>
DigitChar(n) == Digits[n + 1]
IsDigit(c) == \E i \in 1..10 : Digits[i] = c
DigitVal(c) == (CHOOSE i \in 1..10 : Digits[i] = c) - 1
Whitespace == {" ", "\n", "\t", "\r"}
Quote == "\""

RECURSIVE NatToChars(_)
NatToChars(n) ==
    IF n < 10 THEN <<DigitChar(n)>>
    ELSE NatToChars(n \div 10) \o <<DigitChar(n % 10)>>

\* Mutant of IntToChars: the sign is not written.
IntToCharsUnsigned(n) == NatToChars(IF n < 0 THEN -n ELSE n)

\* The decimal text of an integer.
IntToChars(n) == IF n < 0 THEN <<"-">> \o NatToChars(-n) ELSE NatToChars(n)

Indent == <<" ", " ", " ", " ">>

\* One member line: four spaces, "key": value
Member(e) == Indent \o <<Quote, e.k, Quote, ":", " ">> \o IntToChars(e.v)

RECURSIVE Members(_)
Members(d) ==
    IF Len(d) = 1 THEN Member(d[1])
    ELSE Member(d[1]) \o <<",", "\n">> \o Members(Tail(d))

json_dumps(d) ==
    IF d = <<>> THEN <<"{", "}">>
    ELSE <<"{", "\n">> \o Members(d) \o <<"\n", "}">>

\* The character at position i, "" past the end of the text.
At(t, i) == IF i <= Len(t) THEN t[i] ELSE ""

ParseFail == [ok |-> FALSE, val |-> <<>>, next |-> 0]

RECURSIVE SkipWs(_, _)
SkipWs(t, i) ==
    IF i <= Len(t) /\ t[i] \in Whitespace THEN SkipWs(t, i + 1) ELSE i

RECURSIVE ScanDigits(_, _, _)
ScanDigits(t, i, acc) ==
    IF IsDigit(At(t, i)) THEN ScanDigits(t, i + 1, acc * 10 + DigitVal(t[i]))
    ELSE [val |-> acc, next |-> i]

\* -? ( 0 | [1-9][0-9]* )
ParseNumber(t, i) ==
    LET neg == At(t, i) = "-"
        j == IF neg THEN i + 1 ELSE i
        r == ScanDigits(t, j, 0)
    IN  IF ~IsDigit(At(t, j)) THEN ParseFail
        ELSE IF t[j] = "0" THEN [ok |-> TRUE, val |-> 0, next |-> j + 1]
        ELSE [ok |-> TRUE, val |-> IF neg THEN -r.val ELSE r.val, next |-> r.next]

RECURSIVE ScanString(_, _, _)
ScanString(t, i, acc) ==
    IF i > Len(t) THEN ParseFail
    ELSE IF t[i] = Quote THEN [ok |-> TRUE, val |-> acc, next |-> i + 1]
    ELSE ScanString(t, i + 1, acc \o t[i])

ParseString(t, i) ==
    IF At(t, i) = Quote THEN ScanString(t, i + 1, "") ELSE ParseFail

\* The members of an object from position i on, i at the start of a key;
\* a repeated key keeps its first position and takes the last value.
RECURSIVE ParseMembers(_, _, _)
ParseMembers(t, i, acc) ==
    LET key == ParseString(t, i)
        colon == SkipWs(t, key.next)
        num == ParseNumber(t, SkipWs(t, colon + 1))
        end == SkipWs(t, num.next)
        acc2 == Set(acc, key.val, num.val)
    IN  IF ~key.ok THEN ParseFail
        ELSE IF At(t, colon) # ":" THEN ParseFail
        ELSE IF ~num.ok THEN ParseFail
        ELSE IF At(t, end) = "," THEN ParseMembers(t, SkipWs(t, end + 1), acc2)
        ELSE IF At(t, end) = "}" THEN [ok |-> TRUE, val |-> acc2, next |-> end + 1]
        ELSE ParseFail

ParseObject(t, i) ==
    LET j == SkipWs(t, i + 1)
    IN  IF At(t, j) = "}" THEN [ok |-> TRUE, val |-> <<>>, next |-> j + 1]
        ELSE ParseMembers(t, j, <<>>)

\* json.loads: ok = FALSE stands for json.JSONDecodeError.
json_loads(t) ==
    LET i == SkipWs(t, 1)
        r == ParseObject(t, i)
    IN  IF At(t, i) # "{" THEN ParseFail
        ELSE IF r.ok /\ SkipWs(t, r.next) = Len(t) + 1
             THEN [ok |-> TRUE, val |-> r.val, next |-> r.next]
        ELSE ParseFail

(***************************************************************************)
(* The file "inventory.json".  state is "missing" (no such path), "denied" *)
(* (the path exists, open() fails with PermissionError) or "ok".           *)
(***************************************************************************)
MissingFile == [state |-> "missing", text |-> <<>>]
DeniedFile == [state |-> "denied", text |-> <<>>]
TextFile(t) == [state |-> "ok", text |-> t]

\* Contents another program may leave at the path: unparsable ones, and
\* objects laid out differently from what save_data writes.
ExternalTexts ==
    { <<>>,
      <<"{">>,
      <<"{", "}", "x">>,
      <<"{", Quote, "a", Quote, ":", "1", ",", "}">>,
      <<" ", "{", Quote, "b", Quote, ":", "2", ",", Quote, "a", Quote, " ", ":",
        "-", "1", "2", "}", "\n">>,
      <<"{", Quote, "a", Quote, ":", "0", ",", Quote, "a", Quote, ":", "1", "}">> }

ExternalFiles == {MissingFile, DeniedFile} \cup {TextFile(t) : t \in ExternalTexts}

\* Exception classes that `except OSError` catches.
OSErrors == {"OSError", "FileNotFoundError", "PermissionError"}

(***************************************************************************)
(* last: the most recent call, its arguments and what the caller observed: *)
(* the exception that reached the caller ("none" for a normal return), the *)
(* highest logging level used, and the value returned.                     *)
(***************************************************************************)
Call(op, item, qty, given, raised, level, ret, low) ==
    [op |-> op, item |-> item, qty |-> qty, given |-> given, raised |-> raised,
     level |-> level, ret |-> ret, low |-> low]

\* snapshot: the ledger that the last successful save_data wrote, for as
\* long as the file still holds what that call wrote.
NoSnapshot == [valid |-> FALSE, val |-> <<>>]

Init ==
    /\ stock_data = <<>>
    /\ file = MissingFile
    /\ logs = <<>>
    /\ last = Call("init", NoItem, NoQty, FALSE, "none", "none", 0, <<>>)
    /\ snapshot = NoSnapshot

(***************************************************************************)
(* add_item                                                                *)
(***************************************************************************)
\* isinstance(item, str) and isinstance(qty, int)
ValidTypes(item, qty) == item.kind = "str" /\ qty.kind = "int"

\* Mutant of IsEmptyItem: the empty name is not rejected.
IsEmptyItemNever(item) == FALSE

\* not item
IsEmptyItem(item) == item.s = ""

\* Mutant of Added: the quantity is overwritten, not accumulated.
AddedOverwrite(d, item, qty) == qty.n

\* stock_data.get(item, 0) + qty
Added(d, item, qty) == Get(d, item, 0) + qty.n

\* f"{datetime.now()}: Added {qty} of {item}", without the timestamp
LogMsg(item, qty) == [qty |-> qty.n, item |-> item.s]

add_item(item, qty, given) ==
    /\ IF ~ValidTypes(item, qty)
       THEN /\ UNCHANGED <<stock_data, logs>>
            /\ last' = Call("add", item, qty, given, "none", "warning", 0, <<>>)
       ELSE IF IsEmptyItem(item)
       THEN /\ UNCHANGED <<stock_data, logs>>
            /\ last' = Call("add", item, qty, given, "none", "none", 0, <<>>)
       ELSE /\ InRange(Added(stock_data, item, qty))
            /\ given => Len(logs) < MaxLogs
            /\ stock_data' = Set(stock_data, item.s, Added(stock_data, item, qty))
            /\ logs' = IF given THEN Append(logs, LogMsg(item, qty)) ELSE logs
            /\ last' = Call("add", item, qty, given, "none", "none", 0, <<>>)
    /\ UNCHANGED <<file, snapshot>>

AddItem == \E item \in FewItems, qty \in FewQtys : add_item(item, qty, FALSE)

AddItemAny == \E item \in ItemArgs, qty \in QtyArgs : add_item(item, qty, FALSE)

\* add_item with the caller's audit log.
AddItemLogged == \E item \in ItemArgs, qty \in QtyArgs : add_item(item, qty, TRUE)

\* add_item restricted to quantities >= 1.
AddItemPositive == \E item \in ItemArgs, n \in 1..MaxDelta :
    add_item(item, IntArg(n), FALSE)

(***************************************************************************)
(* remove_item                                                             *)
(***************************************************************************)
\* Mutant of Removed: the quantity is added, not subtracted.
RemovedPlus(v, qty) == v + qty.n

\* stock_data[item] - qty
Removed(v, qty) == v - qty.n

\* Mutant of ReachedZero: a quantity of exactly zero is kept.
ReachedZeroStrict(v) == v < 0

\* stock_data[item] <= 0
ReachedZero(v) == v <= 0

\* Mutant of RemoveCatches: no handler for the missing key.
RemoveCatchesNothing(exc) == FALSE

\* except KeyError
RemoveCatches(exc) == exc = "KeyError"

remove_item(item, qty) ==
    LET exc == IF ~Has(stock_data, item) THEN "KeyError"
               ELSE IF qty.kind # "int" THEN "TypeError"
               ELSE "none"
        new == Removed(Lookup(stock_data, item.s), qty)
    IN  /\ IF exc # "none"
           THEN /\ UNCHANGED stock_data
                /\ last' = IF RemoveCatches(exc)
                           THEN Call("remove", item, qty, FALSE, "none", "warning", 0, <<>>)
                           ELSE Call("remove", item, qty, FALSE, exc, "none", 0, <<>>)
           ELSE /\ ReachedZero(new) \/ InRange(new)
                /\ stock_data' = IF ReachedZero(new)
                                 THEN Del(stock_data, item.s)
                                 ELSE Set(stock_data, item.s, new)
                /\ last' = Call("remove", item, qty, FALSE, "none",
                                IF ReachedZero(new) THEN "info" ELSE "none", 0, <<>>)
        /\ UNCHANGED <<file, logs, snapshot>>

RemoveItem == \E item \in FewItems, qty \in FewQtys : remove_item(item, qty)

RemoveItemAny == \E item \in ItemArgs, qty \in QtyArgs : remove_item(item, qty)

(***************************************************************************)
(* get_qty                                                                 *)
(***************************************************************************)
get_qty(item) ==
    /\ last' = Call("get", item, NoQty, FALSE, "none", "none",
                    Get(stock_data, item, 0), <<>>)
    /\ UNCHANGED <<stock_data, file, logs, snapshot>>

GetQty == \E item \in FewItems : get_qty(item)

GetQtyAny == \E item \in ItemArgs : get_qty(item)

(***************************************************************************)
(* check_low_items                                                         *)
(***************************************************************************)
\* Mutant of IsLow: the comparison is not strict.
IsLowOrEqual(v, t) == v <= t

\* stock_data[item] < threshold
IsLow(v, t) == v < t

LowEntry(e, t) == IsLow(e.v, t)

LowItems(d, t) ==
    LET sel == SelectSeq(d, LAMBDA e : LowEntry(e, t))
    IN  [i \in 1..Len(sel) |-> sel[i].k]

\* given = FALSE is the call without an argument.
check_low_items(threshold, given) ==
    LET t == IF given THEN threshold ELSE IntArg(DefaultThreshold)
    IN  /\ last' = IF stock_data # <<>> /\ t.kind # "int"
                   THEN Call("check_low", NoItem, t, given, "TypeError", "none", 0, <<>>)
                   ELSE Call("check_low", NoItem, t, given, "none", "none", 0,
                             LowItems(stock_data, t.n))
        /\ UNCHANGED <<stock_data, file, logs, snapshot>>

CheckLowItems ==
    \/ \E threshold \in FewQtys : check_low_items(threshold, TRUE)
    \/ check_low_items(NoQty, FALSE)

CheckLowItemsAny ==
    \/ \E threshold \in ThresholdArgs : check_low_items(threshold, TRUE)
    \/ check_low_items(NoQty, FALSE)

(***************************************************************************)
(* load_data                                                               *)
(***************************************************************************)
\* Mutant of LoadCatches: no handler for unparsable content.
LoadCatchesMissingOnly(exc) == exc = "FileNotFoundError"

\* except FileNotFoundError / except json.JSONDecodeError
LoadCatches(exc) == exc \in {"FileNotFoundError", "JSONDecodeError"}

load_data ==
    LET parsed == json_loads(file.text)
        exc == IF file.state = "missing" THEN "FileNotFoundError"
               ELSE IF file.state = "denied" THEN "PermissionError"
               ELSE IF ~parsed.ok THEN "JSONDecodeError"
               ELSE "none"
        level == IF exc = "FileNotFoundError" THEN "warning" ELSE "error"
    IN  /\ IF exc = "none"
           THEN /\ stock_data' = parsed.val
                /\ last' = Call("load", NoItem, NoQty, FALSE, "none", "info", 0, <<>>)
           ELSE /\ UNCHANGED stock_data
                /\ last' = IF LoadCatches(exc)
                           THEN Call("load", NoItem, NoQty, FALSE, "none", level, 0, <<>>)
                           ELSE Call("load", NoItem, NoQty, FALSE, exc, "none", 0, <<>>)
        /\ UNCHANGED <<file, logs, snapshot>>

LoadData == load_data

(***************************************************************************)
(* save_data                                                               *)
(***************************************************************************)
\* except OSError
SaveCatches(exc) == exc \in OSErrors

\* What open(file, "w") and f.write can do: "written"; "open_failed", the
\* file is left as it was; "write_failed", the file was truncated by open
\* and nothing was written.
SaveOutcomes(f) ==
    IF f.state = "denied" THEN {"open_failed"}
    ELSE {"written", "open_failed", "write_failed"}

save_data(outcome) ==
    LET exc == IF outcome = "written" THEN "none"
               ELSE IF file.state = "denied" THEN "PermissionError"
               ELSE "OSError"
    IN  /\ outcome \in SaveOutcomes(file)
        /\ file' = IF outcome = "written" THEN TextFile(json_dumps(stock_data))
                   ELSE IF outcome = "write_failed" THEN TextFile(<<>>)
                   ELSE file
        /\ snapshot' = IF outcome = "written" THEN [valid |-> TRUE, val |-> stock_data]
                       ELSE IF outcome = "write_failed" THEN NoSnapshot
                       ELSE snapshot
        /\ last' = IF exc = "none"
                   THEN Call("save", NoItem, NoQty, FALSE, "none", "info", 0, <<>>)
                   ELSE IF SaveCatches(exc)
                   THEN Call("save", NoItem, NoQty, FALSE, "none", "error", 0, <<>>)
                   ELSE Call("save", NoItem, NoQty, FALSE, exc, "none", 0, <<>>)
        /\ UNCHANGED <<stock_data, logs>>

SaveData == \E outcome \in {"written", "open_failed", "write_failed"} :
    save_data(outcome)

(***************************************************************************)
(* Another program replaces, removes or locks the file.                    *)
(***************************************************************************)
ExternalWrite ==
    /\ \E f \in ExternalFiles : f # file /\ file' = f
    /\ snapshot' = NoSnapshot
    /\ last' = Call("external", NoItem, NoQty, FALSE, "none", "none", 0, <<>>)
    /\ UNCHANGED <<stock_data, logs>>

(***************************************************************************)
(* Specifications.                                                         *)
(***************************************************************************)
Next ==
    \/ AddItem
    \/ RemoveItem
    \/ GetQty
    \/ CheckLowItems
    \/ LoadData
    \/ SaveData
    \/ ExternalWrite

Spec == Init /\ [][Next]_vars

\* The ledger operations alone, from the empty ledger, on every argument.
NextLedger == AddItemAny \/ RemoveItemAny \/ GetQtyAny \/ CheckLowItemsAny

SpecLedger == Init /\ [][NextLedger]_vars

\* add_item called with an audit log.
NextAudit == AddItemLogged \/ GetQtyAny

SpecAudit == Init /\ [][NextAudit]_vars

\* add_item with qty >= 1 only.
NextPositive == AddItemPositive \/ RemoveItemAny \/ GetQtyAny

SpecPositive == Init /\ [][NextPositive]_vars

(***************************************************************************)
(* Properties.                                                             *)
(***************************************************************************)
Quantities(d) == {d[i].v : i \in 1..Len(d)}

\* Every key other than key is present with the same quantity, or absent,
\* in both ledgers.
OthersSame(d, e, key) ==
    \A k \in (Keys(d) \cup Keys(e)) \ {key} :
        /\ k \in Keys(d)
        /\ k \in Keys(e)
        /\ Lookup(d, k) = Lookup(e, k)

\* C1: after any sequence of add_item and remove_item calls from the empty
\* ledger, every key present has quantity > 0.
C1_EveryQuantityPositive == \A q \in Quantities(stock_data) : q > 0

\* C2: no operation propagates an exception to its caller.
C2_NoExceptionPropagates == last.raised = "none"

\* C3: add_item on a non-empty string item and an integer qty returns
\* normally, sets the item's quantity to its previous quantity (0 when it was
\* absent) plus qty, and changes no other key.
C3_AddSetsPreviousPlusQty ==
    [][ (/\ last'.op = "add"
         /\ last'.item.kind = "str"
         /\ last'.item.s # ""
         /\ last'.qty.kind = "int")
        => (/\ last'.raised = "none"
            /\ last'.item.s \in Keys(stock_data')
            /\ Lookup(stock_data', last'.item.s)
                 = (IF last'.item.s \in Keys(stock_data)
                    THEN Lookup(stock_data, last'.item.s) ELSE 0) + last'.qty.n
            /\ Get(stock_data', last'.item, 0)
                 = Get(stock_data, last'.item, 0) + last'.qty.n
            /\ OthersSame(stock_data, stock_data', last'.item.s)) ]_vars

\* Two adds of 1 to "a" have produced 2, with another key in the ledger.
C3_Witness ==
    /\ last.op = "add"
    /\ last.item = StrArg("a")
    /\ last.qty = IntArg(1)
    /\ Keys(stock_data) = {"a", "b"}
    /\ Lookup(stock_data, "a") = 2

\* C4: remove_item on a present item with quantity q and an integer qty
\* leaves q - qty when q - qty > 0 and deletes the key when q - qty <= 0, so
\* that its quantity then reads 0; no other key is changed.
C4_RemoveSubtractsOrDeletes ==
    [][ (/\ last'.op = "remove"
         /\ last'.item.kind = "str"
         /\ last'.item.s \in Keys(stock_data)
         /\ last'.qty.kind = "int")
        => LET key == last'.item.s
               rest == Lookup(stock_data, key) - last'.qty.n
           IN  /\ last'.raised = "none"
               /\ rest > 0 => /\ key \in Keys(stock_data')
                              /\ Lookup(stock_data', key) = rest
               /\ rest <= 0 => /\ key \notin Keys(stock_data')
                               /\ Get(stock_data', last'.item, 0) = 0
               /\ OthersSame(stock_data, stock_data', key) ]_vars

\* A key was deleted by a removal while another key stays in the ledger.
C4_Witness ==
    /\ last.op = "remove"
    /\ last.item = StrArg("a")
    /\ last.qty = IntArg(2)
    /\ last.level = "info"
    /\ Keys(stock_data) = {"b"}

\* C5: remove_item on an item that is not a key returns normally and leaves
\* the ledger exactly as it was.
C5_RemoveAbsentIsNoOp ==
    [][ (/\ last'.op = "remove"
         /\ ~(last'.item.kind = "str" /\ last'.item.s \in Keys(stock_data)))
        => (/\ last'.raised = "none"
            /\ stock_data' = stock_data) ]_vars

\* An absent string item was removed from a ledger that holds another key.
C5_Witness ==
    /\ last.op = "remove"
    /\ last.item = StrArg("a")
    /\ last.level = "warning"
    /\ Keys(stock_data) = {"b"}

\* C6: add_item with a non-string item, a non-integer qty or the empty
\* string as item returns normally, leaves the ledger unchanged and appends
\* nothing to the caller's audit log.
C6_InvalidAddIsNoOp ==
    [][ (/\ last'.op = "add"
         /\ \/ last'.item.kind # "str"
            \/ last'.qty.kind # "int"
            \/ last'.item.s = "")
        => (/\ last'.raised = "none"
            /\ stock_data' = stock_data
            /\ logs' = logs) ]_vars

\* The empty string was added with an integer qty and an audit log, to a
\* ledger and a log that are not empty.
C6_Witness ==
    /\ last.op = "add"
    /\ last.item = StrArg("")
    /\ last.qty = IntArg(1)
    /\ last.given
    /\ stock_data # <<>>
    /\ logs # <<>>

\* Texts that are not valid JSON.
CorruptTexts ==
    { <<>>,
      <<"{">>,
      <<"{", "}", "x">>,
      <<"{", Quote, "a", Quote, ":", "1", ",", "}">> }

\* C7: load_data on a missing path or on a file whose content is not valid
\* JSON returns normally and leaves the ledger as it was.
C7_FailedLoadKeepsLedger ==
    [][ (/\ last'.op = "load"
         /\ \/ file.state = "missing"
            \/ file.state = "ok" /\ file.text \in CorruptTexts)
        => (/\ last'.raised = "none"
            /\ last'.level \in {"warning", "error"}
            /\ stock_data' = stock_data) ]_vars

\* A load of unparsable content was reported on a ledger with two keys.
C7_Witness ==
    /\ last.op = "load"
    /\ last.level = "error"
    /\ file.state = "ok"
    /\ file.text = <<"{", Quote, "a", Quote, ":", "1", ",", "}">>
    /\ Keys(stock_data) = {"a", "b"}

\* C8: load_data, called while the file still holds what the last successful
\* save_data wrote, returns normally and makes the ledger identical to the
\* ledger that was saved, whatever the ledger was before the load.
C8_SaveThenLoadRoundTrip ==
    [][ (last'.op = "load" /\ snapshot.valid)
        => (/\ last'.raised = "none"
            /\ last'.level = "info"
            /\ stock_data' = snapshot.val) ]_vars

\* A saved ledger with a negative two-digit quantity was loaded back.
C8_Witness ==
    /\ last.op = "load"
    /\ snapshot.valid
    /\ Keys(stock_data) = {"a", "b"}
    /\ Lookup(stock_data, "a") = -12

\* C9: check_low_items with an integer threshold returns each key whose
\* quantity is strictly below the threshold exactly once and no other key,
\* and does not modify the ledger; without an argument the threshold is 5.
C9_LowItemsStrictlyBelow ==
    [][ (last'.op = "check_low" /\ last'.qty.kind = "int")
        => LET low == last'.low
               t == last'.qty.n
           IN  /\ last'.raised = "none"
               /\ {low[i] : i \in 1..Len(low)}
                    = {k \in Keys(stock_data) : Lookup(stock_data, k) < t}
               /\ \A i, j \in 1..Len(low) : low[i] = low[j] => i = j
               /\ ~last'.given => t = 5
               /\ stock_data' = stock_data ]_vars

\* A key whose quantity equals the threshold was left out, another one
\* below it was returned.
C9_Witness ==
    /\ last.op = "check_low"
    /\ last.given
    /\ last.qty = IntArg(2)
    /\ Keys(stock_data) = {"a", "b"}
    /\ Lookup(stock_data, "a") = 2
    /\ last.low = <<"b">>

\* C10: after add_item calls with qty >= 1 and remove_item calls with any
\* qty, every key present has quantity > 0, and get_qty(item) > 0 exactly
\* when item is a key.
C10_PositiveAddsKeepPositive ==
    /\ \A q \in Quantities(stock_data) : q > 0
    /\ \A item \in ItemArgs : (Get(stock_data, item, 0) > 0) <=> Has(stock_data, item)
    /\ last.op = "get" => ((last.ret > 0) <=> Has(stock_data, last.item))

\* A removal took a key's quantity to zero or below and deleted it, and
\* another key stays.
C10_Witness ==
    /\ last.op = "remove"
    /\ last.level = "info"
    /\ last.qty = IntArg(2)
    /\ stock_data # <<>>

====
